---- MODULE Spec2Model ----
(***************************************************************************)
(* Model of sink/s3sink.go: the S3 export sinks behind SELECT ... INTO     *)
(* "s3://...".  One sink instance is built by NewS3Sink (which calls       *)
(* Open), then driven by Next and Close.  Text is modelled as a sequence   *)
(* of one-character strings so that trimming, lower-casing, joining and    *)
(* csv encoding are computed, not assumed.                                  *)
(*                                                                         *)
(* The storage and credential clients are outside the file: each of their  *)
(* calls either succeeds or fails, chosen freely at every call.  A failed  *)
(* write delivers nothing, and a constructor that fails returns nil.  A    *)
(* nil-pointer dereference or an index out of range is a panic, after      *)
(* which the sink takes no further step.                                   *)
(***************************************************************************)
EXTENDS Integers, Sequences, FiniteSets, TLC

VARIABLES
    pc,         \* "new" | "live" (NewS3Sink returned) | "closed" | "crashed" (panic)
    cfg,        \* the arguments NewS3Sink was called with: [path, format, delimiter, arn]
    sink,       \* the fields of the S3CSVSink / S3ParquetSink value, and its variant
    openErr,    \* the error NewS3Sink returned
    stream,     \* the CSV upload stream (io.WriteCloser returned by PutWriter)
    buf,        \* the bufio.Writer inside csv.Writer: buffered text, sticky error
    pfile,      \* the Parquet side: the file handle and the columnar writer
    calls,      \* the external calls Open made, in order, each with its outcome
    hist,       \* every Next call that returned: [dest, cols (first call only), ret]
    closeRet,   \* the error Close returned
    panicIn,    \* the call that panicked, "none" while none has
    dconc,      \* s3gof3r.DefaultConfig.Concurrency (process-wide)
    pIn,        \* parseBucketName: the path under test and how it was composed
    pRes        \* parseBucketName: its result

vars == <<pc, cfg, sink, openErr, stream, buf, pfile, calls, hist, closeRet, panicIn, dconc, pIn, pRes>>

lifeVars == <<pc, cfg, sink, openErr, stream, buf, pfile, calls, hist, closeRet, panicIn, dconc>>

parseVars == <<pIn, pRes>>

(***************************************************************************)
(* Bounds of the model.                                                     *)
(***************************************************************************)
MaxNext == 2

BufSize == 6

MaxBucketLen == 2

MaxKeyLen == 2

(***************************************************************************)
(* Text helpers.                                                            *)
(***************************************************************************)
Nil == "nil"

NoErr == "nil"

SeqsUpTo(A, n) == UNION {[1..k -> A] : k \in 0..n}

RECURSIVE Concat(_)
Concat(ss) == IF ss = <<>> THEN <<>> ELSE Head(ss) \o Concat(Tail(ss))

Last(s) == s[Len(s)]

UpperAlpha == <<"A","B","C","D","E","F","G","H","I","J","K","L","M",
                "N","O","P","Q","R","S","T","U","V","W","X","Y","Z">>

LowerAlpha == <<"a","b","c","d","e","f","g","h","i","j","k","l","m",
                "n","o","p","q","r","s","t","u","v","w","x","y","z">>

\* strings.ToLower, on one character
LowerChar(c) ==
    IF \E i \in 1..26 : UpperAlpha[i] = c
    THEN LowerAlpha[CHOOSE i \in 1..26 : UpperAlpha[i] = c]
    ELSE c

\* strings.ToLower
ToLower(s) == [i \in 1..Len(s) |-> LowerChar(s[i])]

\* strings.Index: the first position where pat occurs in s, 0 if none
Index(s, pat) ==
    LET hits == {i \in 1..(Len(s) - Len(pat) + 1) : SubSeq(s, i, i + Len(pat) - 1) = pat}
    IN  IF hits = {} THEN 0 ELSE CHOOSE i \in hits : \A j \in hits : i <= j

\* strings.Replace(s, old, "", 1): drop the first occurrence of old
ReplaceFirst(s, old) ==
    LET i == Index(s, old)
    IN  IF i = 0 THEN s
        ELSE SubSeq(s, 1, i - 1) \o SubSeq(s, i + Len(old), Len(s))

\* strings.SplitN(s, sep, 2) for a one-character sep
SplitN2(s, sep) ==
    LET i == Index(s, <<sep>>)
    IN  IF i = 0 THEN <<s>>
        ELSE <<SubSeq(s, 1, i - 1), SubSeq(s, i + 1, Len(s))>>

\* unicode.IsSpace on the characters of the model's alphabet
IsSpace(c) == c \in {" ", "\t", "\n", "\r"}

RECURSIVE TrimLeft(_)
TrimLeft(s) == IF s # <<>> /\ IsSpace(Head(s)) THEN TrimLeft(Tail(s)) ELSE s

RECURSIVE TrimRight(_)
TrimRight(s) ==
    IF s # <<>> /\ IsSpace(Last(s)) THEN TrimRight(SubSeq(s, 1, Len(s) - 1)) ELSE s

TrimSpaceLeftOnly(s) == TrimLeft(s)

\* strings.TrimSpace
TrimSpace(s) == TrimRight(TrimLeft(s))

\* strings.Join
RECURSIVE Join(_, _)
Join(ss, sep) ==
    IF ss = <<>> THEN <<>>
    ELSE IF Len(ss) = 1 THEN ss[1]
    ELSE ss[1] \o sep \o Join(Tail(ss), sep)

(***************************************************************************)
(* parseBucketName                                                          *)
(***************************************************************************)
S3Scheme == <<"s", "3", ":", "/", "/">>

ErrNoBucket == "no bucket specified"

ErrNoFile == "no file specified"

\* the scheme is removed after lower-casing the whole path
ParseNoScheme(bucketPath) == ReplaceFirst(ToLower(bucketPath), S3Scheme)

\* result of parseBucketName: panic (index out of range on split_path[1]),
\* or the named results bucket, file, err
parseBucketName(bucketPath) ==
    LET split_path == SplitN2(ParseNoScheme(bucketPath), "/")
    IN  IF Len(split_path) < 2
        THEN [panic |-> TRUE, bucket |-> split_path[1], file |-> <<>>, err |-> NoErr]
        ELSE LET bucket == split_path[1]
                 file   == split_path[2]
             IN  [panic  |-> FALSE,
                  bucket |-> bucket,
                  file   |-> file,
                  err    |-> IF bucket = <<>> THEN ErrNoBucket
                             ELSE IF file = <<>> THEN ErrNoFile
                             ELSE NoErr]

NotParsed == [panic |-> FALSE, bucket |-> <<>>, file |-> <<>>, err |-> "not called"]

Schemes == {<<"s", "3", ":", "/", "/">>, <<"S", "3", ":", "/", "/">>}

BucketChars == {"b", "B"}

KeyChars == {"k", "K", "/"}

\* a path <scheme><bucket> with or without "/" <key> after it
ComposePath(p) == p.scheme \o p.bucket \o (IF p.sep THEN <<"/">> \o p.key ELSE <<>>)

ParseInputs ==
    {p \in [scheme : Schemes,
            bucket : SeqsUpTo(BucketChars, MaxBucketLen),
            sep    : BOOLEAN,
            key    : SeqsUpTo(KeyChars, MaxKeyLen)] : p.sep \/ p.key = <<>>}

ParseCall ==
    /\ pRes = NotParsed
    /\ pRes' = parseBucketName(ComposePath(pIn))
    /\ UNCHANGED <<pIn, lifeVars>>

(***************************************************************************)
(* Row values and their conversion to text (the loop shared by both Next). *)
(***************************************************************************)
StrV(s)  == [k |-> "string",      s |-> s,    b |-> FALSE, n |-> 0]

SValV(s) == [k |-> "StringValue", s |-> s,    b |-> FALSE, n |-> 0]

BoolV(b) == [k |-> "BoolValue",   s |-> <<>>, b |-> b,     n |-> 0]

IntV(n)  == [k |-> "int",         s |-> <<>>, b |-> FALSE, n |-> n]

NilV     == [k |-> "nil",         s |-> <<>>, b |-> FALSE, n |-> 0]

\* any other value, given by what the %v verb prints for it
OtherV(s) == [k |-> "other",      s |-> s,    b |-> FALSE, n |-> 0]

Digits == <<"0", "1", "2", "3", "4", "5", "6", "7", "8", "9">>

RECURSIVE NatText(_)
NatText(n) == IF n < 10 THEN <<Digits[n + 1]>> ELSE NatText(n \div 10) \o <<Digits[(n % 10) + 1]>>

\* strconv.FormatBool, behind value.BoolValue.ToString
FormatBool(b) == IF b THEN <<"t", "r", "u", "e">> ELSE <<"f", "a", "l", "s", "e">>

\* fmt.Sprintf("%v", v)
SprintV(v) ==
    CASE v.k = "int" -> IF v.n < 0 THEN <<"-">> \o NatText(0 - v.n) ELSE NatText(v.n)
      [] v.k = "nil" -> <<"<", "n", "i", "l", ">">>
      [] OTHER       -> v.s

ToTextNoTrim(v) ==
    CASE v.k = "string"      -> v.s
      [] v.k = "StringValue" -> v.s
      [] v.k = "BoolValue"   -> FormatBool(v.b)
      [] OTHER               -> SprintV(v)

\* one iteration of the conversion loop: every branch trims
ToText(v) ==
    CASE v.k = "string"      -> TrimSpace(v.s)
      [] v.k = "StringValue" -> TrimSpace(v.s)
      [] v.k = "BoolValue"   -> TrimSpace(FormatBool(v.b))
      [] OTHER               -> TrimSpace(SprintV(v))

\* vals := make([]string, len(dest)); for i, v := range dest { vals[i] = ... }
RowVals(dest) == [i \in 1..Len(dest) |-> ToText(dest[i])]

(***************************************************************************)
(* encoding/csv Writer and the bufio.Writer inside it.                      *)
(***************************************************************************)
DQ == "\""

\* csv.validDelim
ValidDelim(c) == c \notin {DQ, "\r", "\n", "NUL"}

\* csv.Writer.fieldNeedsQuotes
FieldNeedsQuotes(field, comma) ==
    IF field = <<>> THEN FALSE
    ELSE IF field = <<"\\", ".">> THEN TRUE
    ELSE IF \E i \in 1..Len(field) : field[i] \in {"\n", "\r", DQ, comma} THEN TRUE
    ELSE IsSpace(field[1])

\* a quoted field: quotes doubled
CsvQuote(field) ==
    <<DQ>> \o Concat([i \in 1..Len(field) |->
                        IF field[i] = DQ THEN <<DQ, DQ>> ELSE <<field[i]>>]) \o <<DQ>>

CsvField(field, comma) ==
    IF FieldNeedsQuotes(field, comma) THEN CsvQuote(field) ELSE field

\* the text csv.Writer.Write hands to its bufio.Writer for one record
CsvLine(record, comma) ==
    Join([i \in 1..Len(record) |-> CsvField(record[i], comma)], <<comma>>) \o <<"\n">>

\* bufio.Writer taking the text s, one character at a time: when the buffer is
\* full and more is to come it is flushed to the stream; ok says whether the
\* stream accepts writes during this call.  Result: the buffer, the text
\* delivered to the stream, and whether the writer now holds a sticky error.
RECURSIVE BufAppend(_, _, _)
BufAppend(data, s, ok) ==
    IF s = <<>> THEN [data |-> data, out |-> <<>>, err |-> FALSE]
    ELSE IF Len(data) >= BufSize
    THEN IF ok
         THEN LET r == BufAppend(<<>>, s, ok) IN [r EXCEPT !.out = data \o r.out]
         ELSE [data |-> data, out |-> <<>>, err |-> TRUE]
    ELSE BufAppend(Append(data, Head(s)), Tail(s), ok)

ErrInvalidDelim == "csv: invalid field or comment delimiter"

ErrWrite == "write error"

\* csv.Writer.Write(record): [buf, out, ret]
CsvWrite(b, record, comma, ok) ==
    IF ~ValidDelim(comma) THEN [buf |-> b, out |-> <<>>, ret |-> ErrInvalidDelim]
    ELSE IF b.err THEN [buf |-> b, out |-> <<>>, ret |-> ErrWrite]
    ELSE LET r == BufAppend(b.data, CsvLine(record, comma), ok)
         IN  [buf |-> [data |-> r.data, err |-> r.err,
                       recs |-> IF r.err THEN b.recs ELSE Append(b.recs, record)],
              out |-> r.out,
              ret |-> IF r.err THEN ErrWrite ELSE NoErr]

\* csv.Writer.Flush(): [buf, out]; its error is kept in the writer only
CsvFlush(b, ok) ==
    IF b.err \/ b.data = <<>> THEN [buf |-> b, out |-> <<>>]
    ELSE IF ok THEN [buf |-> [b EXCEPT !.data = <<>>], out |-> b.data]
    ELSE [buf |-> [b EXCEPT !.err = TRUE], out |-> <<>>]

(***************************************************************************)
(* The arguments of NewS3Sink.  A params entry is absent, a string, or a   *)
(* value of another type.                                                   *)
(***************************************************************************)
Absent == [t |-> "absent", v |-> <<>>]

PStr(v) == [t |-> "string", v |-> v]

PBytes(v) == [t |-> "bytes", v |-> v]

Parquet == <<"p", "a", "r", "q", "u", "e", "t">>

Formats == {Absent, PStr(Parquet), PStr(<<"P">> \o Tail(Parquet)), PBytes(Parquet)}

Delimiters == {Absent, PStr(<<",">>), PStr(<<DQ>>), PStr(<<>>)}

RoleArns == {Absent, PStr(<<>>), PStr(<<"r">>)}

PathOk == <<"s", "3", ":", "/", "/", "b", "/", "k">>

PathNoBucket == <<"s", "3", ":", "/", "/", "/", "k">>

PathNoKey == <<"s", "3", ":", "/", "/", "b", "/">>

PathNoSep == <<"s", "3", ":", "/", "/", "b">>

Paths == {PathOk, PathNoBucket, PathNoKey, PathNoSep}

\* ctx.Projection.Proj.Columns: the projected columns, [As, Type]
Projections ==
    {<<[As |-> <<"n">>, Type |-> "StringType"], [As |-> <<"a">>, Type |-> "IntType"]>>,
     <<[As |-> <<"x">>, Type |-> "NumberType"], [As |-> <<"y">>, Type |-> "BoolType"],
       [As |-> <<"z">>, Type |-> "TimeType"]>>}

SelectParquetAnyCase(params) ==
    params.format.t = "string" /\ ToLower(params.format.v) = Parquet

\* if fmt, ok := params["format"]; ok && fmt == "parquet"
SelectParquet(params) ==
    params.format.t = "string" /\ params.format.v = Parquet

\* The configurations NewS3Sink is called with.  The CSV Open never reads ctx
\* and the Parquet Open never reads the delimiter, so only the variant that
\* reads them varies them; the format values that are not exactly "parquet"
\* come with the other parameters absent.
Configs ==
    {c \in [path : Paths, format : Formats, delimiter : Delimiters, arn : RoleArns,
            proj : Projections \cup {<<>>}] :
        /\ (c.proj # <<>>) <=> (c.format = PStr(Parquet))
        /\ c.format = PStr(Parquet) => c.delimiter = Absent
        /\ c.format \notin {Absent, PStr(Parquet)} =>
              c.delimiter = Absent /\ c.arn = Absent}

\* outcomes of the external calls Open makes: TRUE is success
Envs == [keys : BOOLEAN, put : BOOLEAN, load : BOOLEAN, sts : BOOLEAN,
         cache : BOOLEAN, fw : BOOLEAN, cw : BOOLEAN]

NoDest == [bucket |-> <<>>, key |-> <<>>]

\* a zero S3CSVSink or S3ParquetSink
ZeroSink(kind) ==
    [kind |-> kind, outBucket |-> <<>>, outBucketConf |-> Nil, writer |-> Nil,
     csvWriter |-> Nil,
     headersWritten |-> FALSE, delimiter |-> "NUL", assumeRoleArn |-> <<>>,
     outFile |-> Nil, md |-> <<>>]

\* a column-name -> position map with no entry
NoCols == <<>>

NoStream == [state |-> "none", text |-> <<>>, dest |-> NoDest, closeCalls |-> 0,
             hdrCols |-> NoCols]

\* recs: the records csv.Writer.Write accepted, in order
NoBuf == [data |-> <<>>, err |-> FALSE, recs |-> <<>>]

\* handed: the records Next passed to WriteString; records: those it accepted;
\* creds: the credentials of the client the file writer was opened with
NoFile == [state |-> "none", handed |-> <<>>, records |-> <<>>, dest |-> NoDest,
           creds |-> "none", stopCalls |-> 0, stopped |-> FALSE, closeCalls |-> 0]

\* an external call that returned without error, and one that returned an error
Ok(name) == [name |-> name, ok |-> TRUE]

Failed(name) == [name |-> name, ok |-> FALSE]

\* the package-level *s3gof3r.Config every caller of s3gof3r shares
GlobalConfig == "s3gof3r.DefaultConfig"

Concurrency == 16

DefaultConcurrency == 10

(***************************************************************************)
(* S3CSVSink.Open                                                           *)
(***************************************************************************)
\* the result of an Open: the sink, what it built, and how it ended
OpenResult(s, st, pf, cl, dc, ret, panic) ==
    [sink |-> s, stream |-> st, pfile |-> pf, calls |-> cl, dconc |-> dc,
     ret |-> ret, panic |-> panic]

CSVOpen(s0, c, env, dc) ==
    LET s1 == [s0 EXCEPT !.delimiter =
                   IF c.delimiter.t = "absent" THEN "\t"
                   ELSE IF c.delimiter.v = <<>> THEN "NUL" ELSE c.delimiter.v[1]]
        s2 == IF c.arn.t = "absent" THEN s1 ELSE [s1 EXCEPT !.assumeRoleArn = c.arn.v]
        p  == parseBucketName(c.path)
        sb == [s2 EXCEPT !.outBucket = p.bucket, !.outBucketConf = GlobalConfig]
        s3 == [sb EXCEPT !.writer = "w", !.csvWriter = "cw"]
    IN  IF c.delimiter.t # "absent" /\ (c.delimiter.t # "string" \/ c.delimiter.v = <<>>)
        THEN OpenResult(s0, NoStream, NoFile, <<>>, dc, NoErr, TRUE)
        ELSE IF p.panic
        THEN OpenResult(s2, NoStream, NoFile, <<>>, dc, NoErr, TRUE)
        ELSE IF p.err # NoErr
        THEN OpenResult(s2, NoStream, NoFile, <<>>, dc, p.err, FALSE)
        ELSE IF ~env.keys
        THEN OpenResult(s2, NoStream, NoFile, <<Failed("InstanceKeys")>>, dc,
                        "keys error", FALSE)
        ELSE IF ~env.put
        THEN OpenResult(sb, NoStream, NoFile, <<Ok("InstanceKeys"), Failed("PutWriter")>>,
                        Concurrency, "put error", FALSE)
        ELSE OpenResult(s3,
                        [NoStream EXCEPT !.state = "open",
                                         !.dest = [bucket |-> p.bucket, key |-> p.file]],
                        NoFile, <<Ok("InstanceKeys"), Ok("PutWriter")>>, Concurrency,
                        NoErr, FALSE)

(***************************************************************************)
(* S3ParquetSink.Open                                                       *)
(***************************************************************************)
\* the schema line of one projected column
MdEntry(col) ==
    CASE col.Type = "IntType"    -> [name |-> col.As, type |-> "INT64",   encoding |-> "none"]
      [] col.Type = "NumberType" -> [name |-> col.As, type |-> "FLOAT",   encoding |-> "none"]
      [] col.Type = "BoolType"   -> [name |-> col.As, type |-> "BOOLEAN", encoding |-> "none"]
      [] OTHER -> [name |-> col.As, type |-> "UTF8", encoding |-> "PLAIN_DICTIONARY"]

\* s.md, one entry per projected column, in order
BuildMd(cols) == [i \in 1..Len(cols) |-> MdEntry(cols[i])]

Outcome(name, ok) == IF ok THEN Ok(name) ELSE Failed(name)

RoleConfiguredNever(s) == FALSE

\* if s.assumeRoleArn != ""
RoleConfigured(s) == s.assumeRoleArn # <<>>

\* the external calls up to and including the credential retrievals; a failed
\* LoadDefaultConfig is logged and Open goes on
ParquetCredCalls(s, env) ==
    <<Outcome("LoadDefaultConfig", env.load)>> \o
    (IF ~RoleConfigured(s) THEN <<>>
     ELSE IF ~env.sts THEN <<Failed("AssumeRole.Retrieve")>>
     ELSE <<Ok("AssumeRole.Retrieve"), Outcome("CredentialsCache.Retrieve", env.cache)>>)

ParquetOpen(s0, c, env, dc) ==
    LET p   == parseBucketName(c.path)
        s1  == IF c.arn.t = "absent" THEN s0 ELSE [s0 EXCEPT !.assumeRoleArn = c.arn.v]
        cl1 == ParquetCredCalls(s1, env)
        s2  == [s1 EXCEPT !.outFile = "f"]
        s3  == [s2 EXCEPT !.md = BuildMd(c.proj)]
        cl3 == cl1 \o <<Ok("NewS3FileWriter"), Outcome("NewCSVWriter", env.cw)>>
        f   == [NoFile EXCEPT !.state = "open",
                              !.dest = [bucket |-> p.bucket, key |-> p.file],
                              !.creds = IF RoleConfigured(s1) THEN "role" ELSE "ambient"]
    IN  IF p.panic
        THEN OpenResult(s0, NoStream, NoFile, <<>>, dc, NoErr, TRUE)
        ELSE IF p.err # NoErr
        THEN OpenResult(s0, NoStream, NoFile, <<>>, dc, p.err, FALSE)
        ELSE IF c.arn.t \notin {"absent", "string"}
        THEN OpenResult(s0, NoStream, NoFile, <<>>, dc, NoErr, TRUE)
        ELSE IF RoleConfigured(s1) /\ ~env.sts
        THEN OpenResult(s1, NoStream, NoFile, cl1, dc,
                        "Failed to retrieve credentials", FALSE)
        ELSE IF RoleConfigured(s1) /\ ~env.cache
        THEN OpenResult(s1, NoStream, NoFile, cl1, dc,
                        "Failed to retrieve credentials from cache", FALSE)
        ELSE IF ~env.fw
        THEN OpenResult(s1, NoStream, NoFile, cl1 \o <<Failed("NewS3FileWriter")>>, dc,
                        "file writer error", FALSE)
        ELSE IF ~env.cw
        THEN OpenResult(s3, NoStream, f, cl3, dc, "csv writer error", FALSE)
        ELSE OpenResult([s3 EXCEPT !.csvWriter = "cw"], NoStream, f, cl3, dc, NoErr, FALSE)

(***************************************************************************)
(* NewS3Sink                                                                *)
(***************************************************************************)
NewS3Sink ==
    /\ pc = "new"
    /\ \E c \in Configs, env \in Envs :
         LET s0 == ZeroSink(IF SelectParquet(c) THEN "parquet" ELSE "csv")
             r  == IF s0.kind = "parquet" THEN ParquetOpen(s0, c, env, dconc)
                   ELSE CSVOpen(s0, c, env, dconc)
         IN  /\ cfg' = c
             /\ sink' = r.sink
             /\ stream' = r.stream
             /\ pfile' = r.pfile
             /\ calls' = r.calls
             /\ dconc' = r.dconc
             /\ openErr' = r.ret
             /\ pc' = IF r.panic THEN "crashed" ELSE "live"
             /\ panicIn' = IF r.panic THEN "NewS3Sink" ELSE "none"
    /\ UNCHANGED <<buf, hist, closeRet, parseVars>>

(***************************************************************************)
(* The inputs of Next: rows and column-name -> position maps.               *)
(***************************************************************************)
RowA == <<StrV(<<" ", "a">>), OtherV(<<" ", "c", ",", "d", " ">>)>>

RowB == <<SValV(<<"b", "\t">>), BoolV(TRUE)>>

RowC == <<IntV(30), StrV(<<" ">>), NilV>>

Rows == {RowA, RowB, RowC}

ColNameSets == {{<<"n">>}, {<<"n">>, <<"a", "g">>}, {<<"n">>, <<"a", "g">>, <<"x">>}}

\* the bijections from a set of names onto 0..n-1
Bijections(D) ==
    {f \in [D -> 0..(Cardinality(D) - 1)] : \A a, b \in D : a # b => f[a] # f[b]}

\* the maps Next is called with: every bijection of one and of two names, and
\* the rotations of three
ColMaps ==
    UNION {{f \in Bijections(D) :
               Cardinality(D) = 3 => f[<<"n">>] = (f[<<"x">>] + 1) % 3} : D \in ColNameSets}

\* the orders in which a range loop may visit the keys of the map
Orders(colIndex) ==
    LET D == DOMAIN colIndex
        n == Cardinality(D)
    IN  {o \in [1..n -> D] : \A i, j \in 1..n : i # j => o[i] # o[j]}

HeaderNamesInVisitOrder(colIndex, order) == order

\* cNames := make([]string, len(colIndex)); for k, i := range colIndex { cNames[i] = k }
RECURSIVE PlaceNames(_, _, _)
PlaceNames(cNames, colIndex, order) ==
    IF order = <<>> THEN cNames
    ELSE PlaceNames([cNames EXCEPT ![colIndex[Head(order)] + 1] = Head(order)],
                    colIndex, Tail(order))

HeaderNames(colIndex, order) ==
    PlaceNames([i \in 1..Cardinality(DOMAIN colIndex) |-> <<>>], colIndex, order)

\* headers := []byte(strings.Join(cNames, string(s.delimiter)) + "\n")
HeaderLine(colIndex, order, delimiter) ==
    Join(HeaderNames(colIndex, order), <<delimiter>>) \o <<"\n">>

ErrNilWriter == "nil writer, open call must have failed"

(***************************************************************************)
(* S3CSVSink.Next                                                           *)
(***************************************************************************)
NextResult(s, st, b, pf, ret, panic) ==
    [sink |-> s, stream |-> st, buf |-> b, pfile |-> pf, ret |-> ret, panic |-> panic]

\* the row part of Next: convert, then csvWriter.Write
CSVNextRow(s, st, b, pf, dest, flushOk) ==
    LET w == CsvWrite(b, RowVals(dest), s.delimiter, flushOk)
    IN  NextResult(s, [st EXCEPT !.text = @ \o w.out], w.buf, pf, w.ret, FALSE)

CSVNext(s, st, b, pf, dest, colIndex, order, hdrOk, flushOk) ==
    IF ~s.headersWritten
    THEN IF s.writer = Nil
         THEN NextResult(s, st, b, pf, ErrNilWriter, FALSE)
         ELSE IF ~hdrOk
         THEN NextResult(s, st, b, pf, ErrWrite, FALSE)
         ELSE CSVNextRow([s EXCEPT !.headersWritten = TRUE],
                         [st EXCEPT !.text = @ \o HeaderLine(colIndex, order, s.delimiter),
                                    !.hdrCols = colIndex],
                         b, pf, dest, flushOk)
    ELSE CSVNextRow(s, st, b, pf, dest, flushOk)

(***************************************************************************)
(* S3ParquetSink.Next                                                       *)
(***************************************************************************)
ParquetToTextRawOther(v) ==
    CASE v.k = "string"      -> TrimSpace(v.s)
      [] v.k = "StringValue" -> TrimSpace(v.s)
      [] v.k = "BoolValue"   -> TrimSpace(FormatBool(v.b))
      [] OTHER               -> SprintV(v)

\* one iteration of the conversion loop of the Parquet Next
ParquetToText(v) ==
    CASE v.k = "string"      -> TrimSpace(v.s)
      [] v.k = "StringValue" -> TrimSpace(v.s)
      [] v.k = "BoolValue"   -> TrimSpace(FormatBool(v.b))
      [] OTHER               -> TrimSpace(SprintV(v))

\* vals, and rec, whose j-th element points at vals[j]
ParquetRowVals(dest) == [i \in 1..Len(dest) |-> ParquetToText(dest[i])]

ParquetNext(s, st, b, pf, dest, writeOk) ==
    LET rec == ParquetRowVals(dest)
    IN  IF s.csvWriter = Nil
        THEN NextResult(s, st, b, pf, NoErr, TRUE)
        ELSE IF ~writeOk
        THEN NextResult(s, st, b, [pf EXCEPT !.handed = Append(@, rec)], ErrWrite, FALSE)
        ELSE NextResult(s, st, b,
                        [pf EXCEPT !.handed = Append(@, rec), !.records = Append(@, rec)],
                        NoErr, FALSE)

\* if !s.headersWritten, on the CSV variant
HeaderPending(s) == s.kind = "csv" /\ ~s.headersWritten

Next_ ==
    /\ pc = "live"
    /\ Len(hist) < MaxNext
    /\ \E dest \in Rows, colIndex \in ColMaps, flushOk \in BOOLEAN :
         \* the range loop and the header write happen only while no header is written
         \E order \in (IF HeaderPending(sink) THEN Orders(colIndex) ELSE {<<>>}),
            hdrOk \in (IF HeaderPending(sink) /\ sink.writer # Nil THEN BOOLEAN ELSE {TRUE}) :
           LET r == IF sink.kind = "parquet"
                    THEN ParquetNext(sink, stream, buf, pfile, dest, flushOk)
                    ELSE CSVNext(sink, stream, buf, pfile, dest, colIndex, order,
                                 hdrOk, flushOk)
               readCols == Len(hist) = 0
           IN  /\ sink' = r.sink
               /\ stream' = r.stream
               /\ buf' = r.buf
               /\ pfile' = r.pfile
               /\ pc' = IF r.panic THEN "crashed" ELSE "live"
               /\ panicIn' = IF r.panic THEN "Next" ELSE "none"
               /\ hist' = IF r.panic THEN hist
                          ELSE Append(hist, [dest |-> dest,
                                             cols |-> IF readCols THEN colIndex ELSE NoCols,
                                             ret  |-> r.ret])
    /\ UNCHANGED <<cfg, openErr, calls, closeRet, dconc, parseVars>>

(***************************************************************************)
(* Close                                                                    *)
(***************************************************************************)
ErrClose == "close error"

ErrWriteStop == "Parquet Sink: WriteStop error"

CloseResult(st, b, pf, ret, panic) ==
    [stream |-> st, buf |-> b, pfile |-> pf, ret |-> ret, panic |-> panic]

CSVCloseSkipsNever(s) == FALSE

\* if s.writer == nil { return nil }
CSVCloseSkips(s) == s.writer = Nil

\* s.writer.Close(): the stream after the call
StreamClose(st, closeOk) ==
    [st EXCEPT !.closeCalls = @ + 1,
               !.state = IF closeOk THEN "closed" ELSE "closefailed"]

\* what a flush finds: a stream that is no longer open takes no write
FlushOutcome(st, b, flushOk) == CsvFlush(b, flushOk /\ st.state = "open")

CSVCloseSwallowsError(s, st, b, pf, flushOk, closeOk) ==
    IF CSVCloseSkips(s) THEN CloseResult(st, b, pf, NoErr, FALSE)
    ELSE LET fl == FlushOutcome(st, b, flushOk)
         IN  CloseResult(StreamClose([st EXCEPT !.text = @ \o fl.out], closeOk),
                         fl.buf, pf, NoErr, FALSE)

CSVClose(s, st, b, pf, flushOk, closeOk) ==
    IF CSVCloseSkips(s) THEN CloseResult(st, b, pf, NoErr, FALSE)
    ELSE IF s.writer = Nil THEN CloseResult(st, b, pf, NoErr, TRUE)
    ELSE LET fl  == IF s.csvWriter # Nil THEN FlushOutcome(st, b, flushOk)
                    ELSE [buf |-> b, out |-> <<>>]
             st1 == StreamClose([st EXCEPT !.text = @ \o fl.out], closeOk)
         IN  CloseResult(st1, fl.buf, pf, IF closeOk THEN NoErr ELSE ErrClose, FALSE)

ParquetClosePropagates(s, st, b, pf, stopOk, closeOk) ==
    IF s.csvWriter = Nil
    THEN CloseResult(st, b, pf, NoErr, TRUE)
    ELSE IF ~stopOk
    THEN CloseResult(st, b, [pf EXCEPT !.stopCalls = @ + 1], ErrWriteStop, FALSE)
    ELSE CloseResult(st, b,
                     [pf EXCEPT !.stopCalls = @ + 1,
                                !.stopped = TRUE,
                                !.closeCalls = @ + 1,
                                !.state = IF closeOk THEN "closed" ELSE "closefailed"],
                     IF closeOk THEN NoErr ELSE ErrClose, FALSE)

ParquetClose(s, st, b, pf, stopOk, closeOk) ==
    IF s.csvWriter = Nil
    THEN CloseResult(st, b, pf, NoErr, TRUE)
    ELSE IF ~stopOk
    THEN CloseResult(st, b, [pf EXCEPT !.stopCalls = @ + 1], ErrWriteStop, FALSE)
    ELSE CloseResult(st, b,
                     [pf EXCEPT !.stopCalls = @ + 1,
                                !.stopped = TRUE,
                                !.closeCalls = @ + 1,
                                !.state = IF closeOk THEN "closed" ELSE "closefailed"],
                     NoErr, FALSE)

Close ==
    /\ pc = "live"
    /\ \E finOk \in BOOLEAN, closeOk \in BOOLEAN :
         LET r == IF sink.kind = "parquet"
                  THEN ParquetClose(sink, stream, buf, pfile, finOk, closeOk)
                  ELSE CSVClose(sink, stream, buf, pfile, finOk, closeOk)
         IN  /\ stream' = r.stream
             /\ buf' = r.buf
             /\ pfile' = r.pfile
             /\ closeRet' = IF r.panic THEN closeRet ELSE r.ret
             /\ pc' = IF r.panic THEN "crashed" ELSE "closed"
             /\ panicIn' = IF r.panic THEN "Close" ELSE "none"
    /\ UNCHANGED <<cfg, sink, openErr, calls, hist, dconc, parseVars>>

(***************************************************************************)
(* Specifications                                                           *)
(***************************************************************************)
NoCfg == [path |-> <<>>, format |-> Absent, delimiter |-> Absent, arn |-> Absent,
          proj |-> <<>>]

NoParseInput == [scheme |-> <<>>, bucket |-> <<>>, sep |-> FALSE, key |-> <<>>]

LifeInit ==
    /\ pc = "new"
    /\ cfg = NoCfg
    /\ sink = ZeroSink("none")
    /\ openErr = "not called"
    /\ stream = NoStream
    /\ buf = NoBuf
    /\ pfile = NoFile
    /\ calls = <<>>
    /\ hist = <<>>
    /\ closeRet = "not called"
    /\ panicIn = "none"
    /\ dconc = DefaultConcurrency

Init ==
    /\ LifeInit
    /\ pIn = NoParseInput
    /\ pRes = NotParsed

Next == NewS3Sink \/ Next_ \/ Close

\* one sink: NewS3Sink, then Next and Close as the caller pleases
Spec == Init /\ [][Next]_vars

ParseInit ==
    /\ LifeInit
    /\ pIn \in ParseInputs
    /\ pRes = NotParsed

ParseNext == ParseCall

\* parseBucketName applied to every composed path
ParseSpec == ParseInit /\ [][ParseNext]_vars

(***************************************************************************)
(* Properties                                                               *)
(***************************************************************************)
OpenFailed == openErr \notin {NoErr, "not called"}

OpenSucceeded == pc # "new" /\ panicIn # "NewS3Sink" /\ openErr = NoErr

AllNextOk == \A i \in 1..Len(hist) : hist[i].ret = NoErr

\* the names of a map by position, read off the map itself
NamesByPosition(m) ==
    [i \in 1..Cardinality(DOMAIN m) |-> CHOOSE k \in DOMAIN m : m[k] = i - 1]

\* the text a complete export of the recorded calls consists of
ExpectedCsvText ==
    Join(NamesByPosition(hist[1].cols), <<sink.delimiter>>) \o <<"\n">>
    \o Concat([k \in 1..Len(hist) |-> CsvLine(RowVals(hist[k].dest), sink.delimiter)])

LineBreaks(text) == Cardinality({i \in 1..Len(text) : text[i] = "\n"})

\* C1: after a successful Open, N >= 1 Next calls that all returned nil and a
\* Close that returned nil, the stream holds exactly the header line followed
\* by the N rows, in call order.
C1_CsvOutputExact ==
    (sink.kind = "csv" /\ OpenSucceeded /\ pc = "closed" /\ closeRet = NoErr
       /\ Len(hist) >= 1 /\ AllNextOk)
    => /\ stream.text = ExpectedCsvText
       /\ LineBreaks(stream.text) = Len(hist) + 1

\* Supplement to C1: the same holds whenever the flush inside Close reached
\* the stream (the buffered writer holds no error afterwards).
C1_OutputExactWhenFlushed ==
    (sink.kind = "csv" /\ OpenSucceeded /\ pc = "closed" /\ closeRet = NoErr
       /\ Len(hist) >= 1 /\ AllNextOk /\ ~buf.err)
    => /\ stream.text = ExpectedCsvText
       /\ LineBreaks(stream.text) = Len(hist) + 1

\* C2: the header line on the stream lists the names by mapped position,
\* joined by the delimiter, whatever order the map was visited in.
C2_HeaderByPosition ==
    sink.headersWritten =>
        LET h == Join(NamesByPosition(stream.hdrCols), <<sink.delimiter>>) \o <<"\n">>
        IN  /\ Len(stream.text) >= Len(h)
            /\ SubSeq(stream.text, 1, Len(h)) = h

C2_Witness ==
    /\ sink.headersWritten
    /\ Cardinality(DOMAIN stream.hdrCols) = 3
    /\ stream.hdrCols[<<"n">>] = 2
    /\ sink.delimiter = ","

Untrimmed(field) == field # <<>> /\ (IsSpace(field[1]) \/ IsSpace(field[Len(field)]))

\* C3: no field handed to the delimited writer or to the columnar writer by
\* Next starts or ends with whitespace, whatever kind of value it came from.
C3_FieldsTrimmed ==
    /\ \A i \in 1..Len(buf.recs) : \A j \in 1..Len(buf.recs[i]) : ~Untrimmed(buf.recs[i][j])
    /\ \A i \in 1..Len(pfile.records) :
         \A j \in 1..Len(pfile.records[i]) : ~Untrimmed(pfile.records[i][j])

\* both variants cannot be seen in one state: the witness is the Parquet sink
\* that was handed RowA and RowB (a native string, a generic value, an engine
\* string and an engine boolean, three of them with surrounding whitespace)
C3_Witness ==
    /\ sink.kind = "parquet"
    /\ Len(pfile.records) = 2
    /\ hist[1].dest = RowA
    /\ hist[2].dest = RowB
    /\ \E j \in 1..2 : Untrimmed(ToTextNoTrim(RowA[j]))

\* C4: a path <scheme>://<bucket>/<key> with the scheme s3 in any case and a
\* non-empty bucket and key parses without error to that bucket and that key,
\* character for character.
C4_ParseKeepsBucketAndKey ==
    (pRes # NotParsed /\ pIn.sep /\ pIn.bucket # <<>> /\ pIn.key # <<>>)
    => /\ ~pRes.panic
       /\ pRes.err = NoErr
       /\ pRes.bucket = pIn.bucket
       /\ pRes.file = pIn.key

\* C5: a path whose bucket is empty, or whose key is empty (nothing follows
\* the bucket, with or without a separator), yields an error and no panic.
C5_ParseFailsCleanly ==
    (pRes # NotParsed /\ (pIn.bucket = <<>> \/ pIn.key = <<>>))
    => /\ ~pRes.panic
       /\ pRes.err # NoErr

\* C6: NewS3Sink builds the Parquet variant exactly when the format parameter
\* is present and is the string "parquet"; otherwise the CSV variant.
C6_FormatSelection ==
    pc # "new" =>
        /\ sink.kind \in {"csv", "parquet"}
        /\ (sink.kind = "parquet") <=>
               (cfg.format.t = "string"
                  /\ cfg.format.v = <<"p", "a", "r", "q", "u", "e", "t">>)

C6_Witness ==
    /\ pc = "live"
    /\ sink.kind = "csv"
    /\ cfg.format.t = "string"
    /\ cfg.format.v = <<"P", "a", "r", "q", "u", "e", "t">>

\* C7: after a failed Open every Next call returns an error, without a panic
\* and without anything reaching a stream or a writer, on both variants.
C7_NextAfterFailedOpen ==
    OpenFailed =>
        /\ panicIn # "Next"
        /\ \A i \in 1..Len(hist) : hist[i].ret # NoErr
        /\ stream.text = <<>>
        /\ pfile.records = <<>>

\* C8: Close on a CSV sink whose Open failed returns nil and neither flushes,
\* writes nor closes anything, whichever step of Open failed.
C8_CsvCloseAfterFailedOpen ==
    (sink.kind = "csv" /\ OpenFailed) =>
        /\ panicIn # "Close"
        /\ stream = NoStream
        /\ buf = NoBuf
        /\ pc = "closed" => closeRet = NoErr

C8_Witness ==
    /\ sink.kind = "csv"
    /\ OpenFailed
    /\ calls = <<Ok("InstanceKeys"), Failed("PutWriter")>>
    /\ pc = "closed"
    /\ closeRet = NoErr

\* C9: Close on a Parquet sink whose Open failed does not panic and does not
\* finalize or write to a writer that was never established.
C9_ParquetCloseAfterFailedOpen ==
    (sink.kind = "parquet" /\ OpenFailed) =>
        /\ panicIn # "Close"
        /\ pfile.stopCalls = 0

\* C10: once Close has returned on a sink whose Open succeeded, the upload
\* stream (CSV) or the file handle (Parquet) has been closed.
C10_CloseReleasesStream ==
    (OpenSucceeded /\ pc = "closed") =>
        /\ sink.kind = "csv" => stream.closeCalls >= 1
        /\ sink.kind = "parquet" => pfile.closeCalls >= 1

\* the Parquet physical type of each engine type: a 64-bit integer, a 64-bit
\* float (DOUBLE; FLOAT is the 32-bit one), a boolean, and UTF-8 text otherwise
ColumnTypeFor(t) ==
    CASE t = "IntType"    -> "INT64"
      [] t = "NumberType" -> "DOUBLE"
      [] t = "BoolType"   -> "BOOLEAN"
      [] OTHER            -> "UTF8"

\* the columnar writer was built: Open got past the schema loop
SchemaBuilt == sink.kind = "parquet" /\ pc # "new" /\ sink.md # <<>>

\* C11: the schema built at Open has one entry per projected column, in
\* projection order, named after the column, typed 64-bit integer, 64-bit
\* float, boolean, or UTF-8 text according to the column's declared type.
C11_SchemaFromProjection ==
    SchemaBuilt =>
        /\ Len(sink.md) = Len(cfg.proj)
        /\ \A i \in 1..Len(cfg.proj) :
              /\ sink.md[i].name = cfg.proj[i].As
              /\ sink.md[i].type = ColumnTypeFor(cfg.proj[i].Type)

\* the part of C11 that does not concern the width of the float type
C11_SchemaShape ==
    SchemaBuilt =>
        /\ Len(sink.md) = Len(cfg.proj)
        /\ \A i \in 1..Len(cfg.proj) :
              /\ sink.md[i].name = cfg.proj[i].As
              /\ cfg.proj[i].Type # "NumberType" =>
                    sink.md[i].type = ColumnTypeFor(cfg.proj[i].Type)

Called(name) == \E i \in 1..Len(calls) : calls[i].name = name

CallOk(name) == \E i \in 1..Len(calls) : calls[i] = Ok(name)

CallFailed(name) == \E i \in 1..Len(calls) : calls[i] = Failed(name)

\* every call named b was preceded by a successful call named a
OkBefore(a, b) ==
    \A j \in 1..Len(calls) :
        calls[j].name = b => \E i \in 1..(j - 1) : calls[i] = Ok(a)

ArnConfigured == cfg.arn \notin {Absent, PStr(<<>>)}

ParquetOpenReturned == sink.kind = "parquet" /\ pc # "new" /\ panicIn # "NewS3Sink"

\* C12: in the Parquet Open, with a role ARN configured both credential
\* retrievals succeed before the file writer is opened, and a failed retrieval
\* makes Open return an error with no file writer opened and no columnar
\* writer built; with no role ARN there is no role exchange and the file
\* writer is opened with the ambient credentials.
C12_CredentialGate ==
    ParquetOpenReturned =>
        /\ ArnConfigured =>
              /\ OkBefore("AssumeRole.Retrieve", "NewS3FileWriter")
              /\ OkBefore("CredentialsCache.Retrieve", "NewS3FileWriter")
              /\ pfile.state # "none" => pfile.creds = "role"
              /\ (CallFailed("AssumeRole.Retrieve") \/ CallFailed("CredentialsCache.Retrieve")) =>
                    /\ openErr # NoErr
                    /\ ~Called("NewS3FileWriter")
                    /\ ~Called("NewCSVWriter")
                    /\ sink.outFile = Nil /\ sink.csvWriter = Nil /\ pfile = NoFile
        /\ ~ArnConfigured =>
              /\ ~Called("AssumeRole.Retrieve")
              /\ ~Called("CredentialsCache.Retrieve")
              /\ pfile.state # "none" => pfile.creds = "ambient"

\* a role was configured, the cache retrieval failed, Open returned its error
C12_Witness ==
    /\ ParquetOpenReturned
    /\ ArnConfigured
    /\ CallOk("AssumeRole.Retrieve")
    /\ CallFailed("CredentialsCache.Retrieve")
    /\ openErr = "Failed to retrieve credentials from cache"
    /\ pfile = NoFile

\* C13: for either format, when a role ARN is supplied, Open performs the role
\* exchange before the sink delivers its first byte.
C13_RoleExchangeBeforeFirstByte ==
    (ArnConfigured /\ OpenSucceeded) => CallOk("AssumeRole.Retrieve")

\* C14: no Open reads or mutates process-wide state, and the upload
\* configuration a sink holds is an object of its own, not one another sink
\* in the process can reach.
C14_NoSharedState ==
    pc # "new" =>
        /\ sink.outBucketConf # GlobalConfig
        /\ dconc = DefaultConcurrency

\* C15: Close on an opened Parquet sink returns an error exactly when
\* WriteStop failed; a failed close of the file handle still returns nil.
C15_ParquetCloseErrors ==
    (sink.kind = "parquet" /\ OpenSucceeded /\ pc = "closed") =>
        /\ pfile.stopCalls = 1
        /\ closeRet # NoErr <=> ~pfile.stopped
        /\ pfile.state = "closefailed" => closeRet = NoErr

C15_Witness ==
    /\ sink.kind = "parquet"
    /\ OpenSucceeded
    /\ pc = "closed"
    /\ pfile.stopped
    /\ pfile.state = "closefailed"
    /\ closeRet = NoErr

\* C16: Close on an opened CSV sink flushes the buffered text, closes the
\* upload stream once, and returns the stream's close error whenever the
\* stream failed to close.
C16_CsvCloseErrors ==
    (sink.kind = "csv" /\ OpenSucceeded /\ pc = "closed") =>
        /\ stream.closeCalls = 1
        /\ stream.state = "closefailed" => closeRet = ErrClose
        /\ ~buf.err =>
              /\ buf.data = <<>>
              /\ LineBreaks(stream.text) =
                    (IF sink.headersWritten THEN 1 ELSE 0) + Len(buf.recs)

C16_Witness ==
    /\ sink.kind = "csv"
    /\ OpenSucceeded
    /\ pc = "closed"
    /\ Len(buf.recs) >= 1
    /\ ~buf.err
    /\ stream.state = "closefailed"
    /\ closeRet = ErrClose

Prefix(p, t) == Len(p) <= Len(t) /\ SubSeq(t, 1, Len(p)) = p

\* the header line the mapping of the first Next call gives
FirstCallHeader == Join(NamesByPosition(hist[1].cols), <<sink.delimiter>>) \o <<"\n">>

\* C17: whatever Next calls failed before, the stream holds at most one header
\* line, ahead of every row, and that line is built from the mapping of the
\* first Next call.
C17_HeaderOnce ==
    (sink.kind = "csv" /\ OpenSucceeded /\ stream.text # <<>>) =>
        /\ LineBreaks(stream.text) <= 1 + Len(buf.recs)
        /\ stream.hdrCols = hist[1].cols
        /\ Prefix(FirstCallHeader, stream.text)

\* the part of C17 that does not depend on which call's mapping is used
C17_AtMostOneHeaderFirst ==
    (sink.kind = "csv" /\ OpenSucceeded /\ stream.text # <<>>) =>
        /\ LineBreaks(stream.text) <= 1 + Len(buf.recs)
        /\ Prefix(Join(NamesByPosition(stream.hdrCols), <<sink.delimiter>>) \o <<"\n">>,
                  stream.text)

NextErrored == \E i \in 1..Len(hist) : hist[i].ret # NoErr

\* C18: once a Next call has returned an error, every later Next call returns
\* an error and delivers nothing to the stream or to the columnar writer.
C18_FailedIsTerminal ==
    [][(NextErrored /\ Len(hist') > Len(hist)) =>
          /\ hist'[Len(hist')].ret # NoErr
          /\ stream'.text = stream.text
          /\ pfile'.records = pfile.records]_vars

\* C19: a CSV sink opened and closed with no Next call in between has emitted
\* exactly one header line and no data line.
C19_EmptyExportHasHeader ==
    (sink.kind = "csv" /\ OpenSucceeded /\ pc = "closed" /\ hist = <<>>) =>
        LineBreaks(stream.text) = 1

\* C20: every Parquet Next call hands the columnar writer one record, in call
\* order, whose fields are the trimmed texts the CSV Next computes for the
\* same row, whatever the schema and the column mapping.
C20_ParquetRecordsAsCsv ==
    (sink.kind = "parquet" /\ OpenSucceeded) =>
        /\ Len(pfile.handed) = Len(hist)
        /\ \A k \in 1..Len(hist) : pfile.handed[k] = RowVals(hist[k].dest)

C20_Witness ==
    /\ sink.kind = "parquet"
    /\ OpenSucceeded
    /\ Len(hist) = 2
    /\ hist[1].dest = RowA /\ hist[1].ret # NoErr
    /\ hist[2].dest = RowC /\ hist[2].ret = NoErr
    /\ pfile.handed = <<RowVals(RowA), RowVals(RowC)>>
    /\ \E i \in 1..Len(cfg.proj) : cfg.proj[i].Type = "NumberType"

\* the flush inside Close did not deliver what the buffered writer held
FlushLost == buf.err \/ buf.data # <<>>

\* C21: on a CSV sink whose Next calls all returned nil, a Close that fails to
\* deliver the buffered rows returns an error; so a Close that returned nil
\* left the header and every row on the stream.
C21_CompletedOrFailed ==
    (sink.kind = "csv" /\ OpenSucceeded /\ pc = "closed" /\ hist # <<>> /\ AllNextOk) =>
        /\ FlushLost => closeRet # NoErr
        /\ closeRet = NoErr => stream.text = ExpectedCsvText

\* the path lacks a bucket or a key
Malformed(path) == path \in {PathNoBucket, PathNoKey, PathNoSep}

\* C22: for both variants, an Open given a malformed destination returns the
\* parse error and has made no external call: no credential retrieval, no role
\* exchange, no configuration load, no upload or file writer.
C22_ValidateBeforeExternal ==
    (pc # "new" /\ Malformed(cfg.path)) =>
        /\ panicIn # "NewS3Sink"
        /\ openErr \in {ErrNoBucket, ErrNoFile}
        /\ calls = <<>>
        /\ stream = NoStream /\ pfile = NoFile

\* the part of C22 that holds: nothing external is touched on a malformed path
C22_NoExternalCallOnBadPath ==
    (pc # "new" /\ Malformed(cfg.path)) =>
        /\ calls = <<>>
        /\ dconc = DefaultConcurrency
        /\ stream = NoStream /\ pfile = NoFile
        /\ panicIn # "NewS3Sink" => openErr \in {ErrNoBucket, ErrNoFile}

====
